---- MODULE Spec2Model ----
(***************************************************************************)
(* The process-based RPC gateway of jarvis-mcp:                            *)
(*   TodoistMCPServer   (src/src/services/mcp/servers/todoist-server.ts)   *)
(*   MCPManagerService  (src/dist/services/mcp/mcp-manager.service.js)     *)
(*   ToolCallDispatcher (src/src/services/mcp/tool-call-dispatcher...ts)   *)
(* Client instances are modelled in full: their child-process handles, the *)
(* closures of their start() calls, their pending-request tables, timers.  *)
(* The fields of client 1, the client registered as 'todoist', are the     *)
(* variables process, isConnected and pendingRequests; the fields of the   *)
(* clients initializeServers constructs for further entries are in bench.  *)
(* Every handler runs to completion (Node's single-threaded event loop),   *)
(* so a handler is a pure function from state record to state record and   *)
(* an action applies one handler to the current state.                     *)
(* The webhook router (src/unnamed/part_016) is modelled next to it.       *)
(***************************************************************************)
EXTENDS Integers, Sequences, FiniteSets

\* ------------------------------------------------------------------ bounds
MaxClock == 1      \* Date.now() readings used by calls: 0..MaxClock
MaxProcs == 2      \* child processes spawned in one run
MaxStarts == 1     \* start() calls made on a client that is used directly
MaxBatches == 2    \* executeToolCalls / direct executeToolCall invocations
MaxBuf == 2        \* pieces kept in a start() closure's buffer
MaxClients == 3    \* TodoistMCPServer instances initializeServers may construct
MaxRequests == 2   \* POST requests to the webhook endpoint in one run
MaxParseErrors == 2 \* 'Failed to parse MCP message' lines before noise stops

VARIABLES
  now,             \* the last Date.now() reading
  process,         \* this.process: 0 = null, else the handle of a child
  isConnected,     \* this.isConnected
  pendingRequests, \* this.pendingRequests: request id -> owner of {resolve, reject}
  timers,          \* armed setTimeout callbacks of sendMessage, in firing order
  child,           \* per handle: the child process and the listeners on its streams
  starts,          \* per handle: the closure of the start() call that spawned it
  batches,         \* per invocation: input calls, their promises, the returned list
  servers,         \* MCPManagerService.servers (names mapped to the client)
  init,            \* progress of MCPManagerService.initializeServers, and shutdown
  bench,           \* per further client: its process, isConnected, pendingRequests
  webhook,         \* the webhook endpoint: TELEGRAM_SECRET_TOKEN, responses, updates
  parseErrors      \* the 'Failed to parse MCP message' lines handleMessage has logged

vars == <<now, process, isConnected, pendingRequests, timers, child, starts,
          batches, servers, init, bench, webhook, parseErrors>>

Procs == 1..MaxProcs
Clients == 1..MaxClients
Batches == 1..MaxBatches

\* ------------------------------------------------------------ text & JSON
Digits == <<"0", "1", "2", "3", "4", "5", "6", "7", "8", "9">>

\* Number.prototype.toString() of a non-negative integer (Date.now().toString()).
RECURSIVE ToString(_)
ToString(n) ==
  IF n < 10 THEN Digits[n + 1] ELSE ToString(n \div 10) \o Digits[(n % 10) + 1]

\* A piece of child output.  k = "json": a complete line that JSON.parse accepts,
\* carrying id / error / result;  "M1", "M2": the two halves of the readiness
\* marker 'Todoist Agent Server running on stdio';  "x": any other text.
Piece(k, id, err, val) == [k |-> k, id |-> id, err |-> err, val |-> val]
Text(k) == Piece(k, "", FALSE, "")
Marker == <<Text("M1"), Text("M2")>>

\* The text of a JSON line cut in two, and the newline that ends a line.  Neither
\* part of a JSON text is a JSON text by itself.
HeadOf(line) == [line EXCEPT !.k = "head"]
TailOf(line) == [line EXCEPT !.k = "tail"]
Newline == Text("nl")

\* String.prototype.split('\n') on the pieces of a chunk; run is the text since
\* the last newline.
RECURSIVE Split(_, _)
Split(bytes, run) ==
  IF bytes = <<>> THEN <<run>>
  ELSE IF Head(bytes).k = "nl" THEN <<run>> \o Split(Tail(bytes), <<>>)
  ELSE Split(Tail(bytes), Append(run, Head(bytes)))

\* Boolean(string): the empty string is dropped by filter(Boolean).
NonEmpty(run) == run # <<>>

\* What JSON.parse makes of the text of one array element: the frame, when the
\* text is a whole JSON line (in one piece, or its two parts one after the
\* other); otherwise it throws, which Text("x") stands for.
JsonParse(run) ==
  IF Len(run) = 1 /\ run[1].k = "json" THEN run[1]
  ELSE IF /\ Len(run) = 2
          /\ run[1].k = "head"
          /\ run[2] = TailOf(run[1])
  THEN [run[1] EXCEPT !.k = "json"]
  ELSE Text("x")

\* d.toString().split('\n').filter(Boolean), each element as handleMessage will
\* parse it.
Lines(bytes) ==
  LET runs == SelectSeq(Split(bytes, <<>>), NonEmpty)
  IN  [i \in 1..Len(runs) |-> JsonParse(runs[i])]

\* String.prototype.includes(marker) on a buffer of concatenated pieces.
IncludesMarker(buf) ==
  \E i \in 1..(Len(buf) - 1) : buf[i].k = "M1" /\ buf[i + 1].k = "M2"

\* JSON.parse(toolCall.function.arguments) succeeds.
JsonParses(arguments) == arguments \in {"{}", "{\"content\":\"buy milk\"}"}
SyntaxErrorMessage == "Unexpected end of JSON input"

\* What the provider answers to a tools/call or initialize request.
ResultFor(method) == "result of " \o method
RemoteErrorFor(method) == "remote error of " \o method

NotConnectedMessage == "MCP Server not connected (sendMessage called before connection)"
TimeoutMessage(id) == "Request timeout for ID: " \o id
UnknownFunctionMessage(name) == "Unknown function: " \o name
NotFoundMessage(serverName) == "MCP Server " \o serverName \o " not found"

\* ------------------------------------------------------------------- maps
EmptyMap == <<>>
MapSet(m, k, v) == [x \in (DOMAIN m) \cup {k} |-> IF x = k THEN v ELSE m[x]]
MapDelete(m, k) == [x \in (DOMAIN m) \ {k} |-> m[x]]
Max(a, b) == IF a > b THEN a ELSE b

\* ------------------------------------------------------------------ state
Cur ==
  [now |-> now, process |-> process, isConnected |-> isConnected,
   pendingRequests |-> pendingRequests, timers |-> timers, child |-> child,
   starts |-> starts, batches |-> batches, servers |-> servers, init |-> init,
   bench |-> bench, focus |-> 1, parseErrors |-> parseErrors]

\* The fields of a client: a TodoistMCPServer as its constructor leaves it.
NewClient == [process |-> 0, isConnected |-> FALSE, pendingRequests |-> EmptyMap]

\* `this` becomes client c: the record's process, isConnected and pendingRequests
\* are those of the client in focus, the other clients' fields wait in bench.
Focus(s, c) ==
  IF s.focus = c THEN s
  ELSE [s EXCEPT !.process = s.bench[c].process,
                 !.isConnected = s.bench[c].isConnected,
                 !.pendingRequests = s.bench[c].pendingRequests,
                 !.bench = [@ EXCEPT ![c] = NewClient,
                                     ![s.focus] = [process |-> s.process,
                                                   isConnected |-> s.isConnected,
                                                   pendingRequests |-> s.pendingRequests]],
                 !.focus = c]

Becomes(s) ==
  LET r == Focus(s, 1)
  IN  /\ now' = r.now
      /\ process' = r.process
      /\ isConnected' = r.isConnected
      /\ pendingRequests' = r.pendingRequests
      /\ timers' = r.timers
      /\ child' = r.child
      /\ starts' = r.starts
      /\ batches' = r.batches
      /\ servers' = r.servers
      /\ init' = r.init
      /\ bench' = r.bench
      /\ webhook' = webhook
      /\ parseErrors' = r.parseErrors

\* kills counts the kill() calls made on the handle; held is what the child has
\* written to its stdout and no 'data' event has delivered yet.
NoChild ==
  [st |-> "none", listeners |-> "initial", stdin |-> <<>>, kills |-> 0, held |-> <<>>]
\* client is the `this` of the start() call (0: no start() has used the handle);
\* initSent counts the initialize requests the closure has sent.
NoStart ==
  [stdoutBuffer |-> <<>>, stderrBuffer |-> <<>>, startPromiseCompleted |-> FALSE,
   outcome |-> "none", error |-> "", initSettled |-> 0, client |-> 0, initSent |-> 0]
NoBatch == [st |-> "idle", via |-> "none", in |-> <<>>, p |-> <<>>, out |-> <<>>]
NewPromise ==
  [st |-> "pending", val |-> "", settled |-> 0, registry |-> FALSE, rid |-> ""]

Init ==
  /\ now = 0
  /\ process = 0
  /\ isConnected = FALSE
  /\ pendingRequests = EmptyMap
  /\ timers = <<>>
  /\ child = [p \in Procs |-> NoChild]
  /\ starts = [p \in Procs |-> NoStart]
  /\ batches = [b \in Batches |-> NoBatch]
  /\ servers = {}
  /\ init = [pc |-> "idle", configs |-> <<>>, name |-> "", await |-> 0,
             spawn |-> <<>>, interrupted |-> FALSE]
  /\ bench = [c \in Clients |-> NewClient]
  /\ webhook = [env |-> [defined |-> FALSE, value |-> ""], responses |-> <<>>,
                updates |-> <<>>]
  /\ parseErrors = 0

\* --------------------------------------------------------------- promises
\* MCPManagerService.initializeServers, lines 14-34, from the head of the configs
\* still to visit up to its next await.  Only type 'todoist' constructs a client;
\* the record's enabled flag is never read.  Defined after start().
RECURSIVE RunInitializeServers(_, _)

\* completeStartPromise without the startPromiseCompleted flag: the last event
\* decides what the start() call reports.
CompleteStartPromiseUnguarded(s, p, ok, err) ==
  [s EXCEPT !.starts[p].startPromiseCompleted = TRUE,
            !.starts[p].outcome = IF ok THEN "resolved" ELSE "rejected",
            !.starts[p].error = IF ok THEN "" ELSE err]

\* completeStartPromise of the closure of handle p.  The start() promise settles
\* once; initializeServers, if it awaits this start(), resumes in the same turn:
\* servers.set on success, the catch on failure, then the next config.
CompleteStartPromise(s, p, ok, err) ==
  IF s.starts[p].startPromiseCompleted THEN s
  ELSE
    LET s1 == [s EXCEPT !.starts[p].startPromiseCompleted = TRUE,
                        !.starts[p].outcome = IF ok THEN "resolved" ELSE "rejected",
                        !.starts[p].error = IF ok THEN "" ELSE err]
    IN  IF s.init.pc = "awaiting" /\ s.init.await = p
        THEN RunInitializeServers(
               [s1 EXCEPT !.servers = IF ok THEN @ \cup {s.init.name} ELSE @,
                          !.init.pc = "running", !.init.await = 0, !.init.name = ""],
               s1.init.configs)
        ELSE s1

\* ToolResult with the rejected branch keeping the settled value as content.
ToolResultKeepsContent(toolCall, pr) ==
  [tool_call_id |-> toolCall.id, content |-> pr.val,
   error |-> IF pr.st = "fulfilled" THEN "" ELSE pr.val]

\* The ToolResult of lines 19-34 for one settled promise.  error = "" stands for
\* a result object without the error key.
ToolResult(toolCall, pr) ==
  IF pr.st = "fulfilled"
  THEN [tool_call_id |-> toolCall.id, content |-> pr.val, error |-> ""]
  ELSE [tool_call_id |-> toolCall.id, content |-> "null",
        error |-> IF pr.val # "" THEN pr.val ELSE "Tool execution failed"]

\* The continuation of executeToolCalls (lines 16-34): Promise.allSettled resolves
\* in the turn in which the last promise of the batch settles, and the results
\* are mapped to ToolResults by index.
AllSettled(s, b) == \A i \in 1..Len(s.batches[b].p) : s.batches[b].p[i].st # "pending"
ReturnResults(s, b) ==
  IF ~(s.batches[b].st = "pending" /\ s.batches[b].via = "dispatcher" /\ AllSettled(s, b))
  THEN s
  ELSE
  [s EXCEPT !.batches[b].st = "returned",
            !.batches[b].out = [i \in 1..Len(s.batches[b].in) |->
                                  ToolResult(s.batches[b].in[i], s.batches[b].p[i])]]

\* resolve(val) / reject(new Error(val)) of the promise sendMessage returned to
\* `owner`: <<0, p>> is the initialize() call of start closure p, whose then/catch
\* complete the start promise; <<b, i>> is call i of invocation b.  A promise
\* keeps its first settlement; `settled` counts the invocations.
Settle(s, owner, ok, val) ==
  IF owner[1] = 0
  THEN LET p == owner[2]
           s1 == [s EXCEPT !.starts[p].initSettled = @ + 1]
       IN  IF s.starts[p].initSettled = 0 THEN CompleteStartPromise(s1, p, ok, val)
           ELSE s1
  ELSE LET b == owner[1]
           i == owner[2]
           pr == s.batches[b].p[i]
       IN  ReturnResults(
             [s EXCEPT !.batches[b].p[i] =
                IF pr.st = "pending"
                THEN [pr EXCEPT !.st = IF ok THEN "fulfilled" ELSE "rejected",
                                !.val = val, !.settled = @ + 1]
                ELSE [pr EXCEPT !.settled = @ + 1]], b)

\* ------------------------------------------------------- TodoistMCPServer
\* sendMessage whose guard tests the process handle only.
SendMessageChecksProcessOnly(s, owner, explicitId, method, t) ==
  IF s.process = 0
  THEN Settle(s, owner, FALSE, NotConnectedMessage)
  ELSE
    LET id == IF explicitId # "" THEN explicitId ELSE ToString(t)
        s1 == [s EXCEPT
                 !.now = Max(@, t),
                 !.pendingRequests = MapSet(@, id, owner),
                 !.child[s.process].stdin =
                    IF s.child[s.process].st \in {"running", "killed"}
                    THEN Append(@, [id |-> id, method |-> method, owner |-> owner])
                    ELSE @,
                 !.timers = Append(@, [id |-> id, owner |-> owner, at |-> Max(s.now, t),
                                      client |-> s.focus])]
    IN  IF owner[1] = 0 THEN s1
        ELSE [s1 EXCEPT !.batches[owner[1]].p[owner[2]].rid = id]

\* sendMessage(message): explicitId is message.id ("" when absent), t the
\* Date.now() reading taken by `message.id || Date.now().toString()`.  The owner
\* kept with a request written to stdin is bookkeeping of the model: the child
\* sees id and method only.
SendMessage(s, owner, explicitId, method, t) ==
  IF s.process = 0 \/ ~s.isConnected
  THEN Settle(s, owner, FALSE, NotConnectedMessage)
  ELSE
    LET id == IF explicitId # "" THEN explicitId ELSE ToString(t)
        s1 == [s EXCEPT
                 !.now = Max(@, t),
                 !.pendingRequests = MapSet(@, id, owner),
                 !.child[s.process].stdin =
                    IF s.child[s.process].st \in {"running", "killed"}
                    THEN Append(@, [id |-> id, method |-> method, owner |-> owner])
                    ELSE @,
                 !.timers = Append(@, [id |-> id, owner |-> owner, at |-> Max(s.now, t),
                                      client |-> s.focus])]
    IN  IF owner[1] = 0 THEN s1
        ELSE [s1 EXCEPT !.batches[owner[1]].p[owner[2]].rid = id]

\* The callback sendMessage passed to setTimeout (lines 240-245), for timer tm,
\* on the client whose sendMessage armed it.
TimeoutCallback(s, tm) ==
  LET s0 == Focus(s, tm.client)
  IN  IF tm.id \in DOMAIN s0.pendingRequests
      THEN Settle([s0 EXCEPT !.pendingRequests = MapDelete(@, tm.id)],
                  tm.owner, FALSE, TimeoutMessage(tm.id))
      ELSE s0

\* handleMessage that gives a frame matching no entry to the first pending entry.
HandleMessageFallsBack(s, line) ==
  IF line.k # "json" THEN [s EXCEPT !.parseErrors = @ + 1]
  ELSE IF line.id # "" /\ line.id \in DOMAIN s.pendingRequests
  THEN Settle([s EXCEPT !.pendingRequests = MapDelete(@, line.id)],
              s.pendingRequests[line.id], ~line.err, line.val)
  ELSE IF DOMAIN s.pendingRequests # {}
  THEN LET id == CHOOSE x \in DOMAIN s.pendingRequests : TRUE
       IN  Settle([s EXCEPT !.pendingRequests = MapDelete(@, id)],
                  s.pendingRequests[id], ~line.err, line.val)
  ELSE s

\* handleMessage whose catch gives up every pending request.
HandleMessageDropsPending(s, line) ==
  IF line.k # "json"
  THEN [s EXCEPT !.parseErrors = @ + 1, !.pendingRequests = EmptyMap]
  ELSE IF line.id # "" /\ line.id \in DOMAIN s.pendingRequests
  THEN Settle([s EXCEPT !.pendingRequests = MapDelete(@, line.id)],
              s.pendingRequests[line.id], ~line.err, line.val)
  ELSE s

\* handleMessage(message) for one line of stdout.
HandleMessage(s, line) ==
  IF line.k # "json"
  THEN [s EXCEPT !.parseErrors = @ + 1]          \* JSON.parse throws: logged
  ELSE IF line.id # "" /\ line.id \in DOMAIN s.pendingRequests
  THEN Settle([s EXCEPT !.pendingRequests = MapDelete(@, line.id)],
              s.pendingRequests[line.id], ~line.err, line.val)
  ELSE s                                          \* unsolicited: logged

\* initialize(): the handshake request with the fixed id 'init'.
Initialize(s, p) == SendMessage(s, <<0, p>>, "init", "initialize", s.now)

\* checkReadyAndInitialize of start closure p once `output` includes the marker.
\* The listeners are replaced on the streams of this.process, and initialize()
\* sends its request when this.process is set.
CheckReadyAndInitialize(s, p) ==
  IF s.isConnected THEN s
  ELSE
    LET s1 == [s EXCEPT !.isConnected = TRUE]
        s2 == IF s1.process = 0 THEN s1
              ELSE [s1 EXCEPT !.child[s1.process].listeners = "steady",
                              !.starts[p].initSent = @ + 1]
    IN  Initialize(s2, p)

\* The handle the next spawn() returns: the first one not yet used.
FreeHandles(s) == {p \in Procs : s.child[p].st = "none"}
NextHandle(s) == CHOOSE p \in FreeHandles(s) : \A q \in FreeHandles(s) : p <= q

\* start() past its already-connected guard (lines 27-151), with the closure and
\* the child on handle p.  spawn: "ok" the child runs; "fail" the ChildProcess is
\* returned and will emit 'error'; "throw" spawn throws and the catch rejects.
Start(s, p, spawn) ==
  IF spawn = "throw"
  THEN [s EXCEPT !.child[p].st = "unspawned",
                 !.starts[p] = [NoStart EXCEPT !.startPromiseCompleted = TRUE,
                                               !.outcome = "rejected",
                                               !.error = "spawn threw",
                                               !.client = s.focus]]
  ELSE [s EXCEPT !.process = p,
                 !.child[p] = [NoChild EXCEPT !.st = IF spawn = "ok" THEN "running"
                                                     ELSE "failed"],
                 !.starts[p] = [NoStart EXCEPT !.outcome = "pending",
                                               !.client = s.focus]]

\* The guard of start(), lines 22-25: an already connected client resolves at once.
StartResolvesAtOnce(s) == s.process # 0 /\ s.isConnected

\* stop() that never clears the process handle.
StopKeepsHandle(s) ==
  IF s.process # 0
  THEN [s EXCEPT !.child[s.process].st = IF @ = "running" THEN "killed" ELSE @,
                 !.child[s.process].kills = @ + 1,
                 !.isConnected = FALSE]
  ELSE s

\* stop(), lines 252-260, of the client in focus: kill() sends SIGTERM, which ends
\* a child that is running.
Stop(s) ==
  IF s.process # 0
  THEN [s EXCEPT !.child[s.process].st = IF @ = "running" THEN "killed" ELSE @,
                 !.child[s.process].kills = @ + 1,
                 !.process = 0,
                 !.isConnected = FALSE]
  ELSE s

\* The initial stdout 'data' listener of start closure p (lines 93-104).
InitialStdout(s0, p, chunk) ==
  LET s == Focus(s0, s0.starts[p].client)
      buf == s.starts[p].stdoutBuffer \o chunk
  IN  IF IncludesMarker(buf)
      THEN [CheckReadyAndInitialize([s EXCEPT !.starts[p].stdoutBuffer = buf], p)
              EXCEPT !.starts[p].stdoutBuffer = <<>>]
      ELSE [s EXCEPT !.starts[p].stdoutBuffer = buf]

\* The initial stderr 'data' listener of start closure p (lines 107-125).
InitialStderr(s0, p, chunk) ==
  LET s == Focus(s0, s0.starts[p].client)
      buf == s.starts[p].stderrBuffer \o chunk
      s1 == [s EXCEPT !.starts[p].stderrBuffer = buf]
  IN  IF IncludesMarker(buf)
      THEN [CheckReadyAndInitialize(s1, p) EXCEPT !.starts[p].stderrBuffer = <<>>]
      ELSE IF ~s1.isConnected
      THEN CompleteStartPromise(s1, p, FALSE, "Todoist MCP Server failed to start")
      ELSE s1

\* The steady-state stdout 'data' listener (lines 58-61): d.toString().split('\n')
\* .filter(Boolean).forEach(handleMessage), on a chunk of complete lines, each
\* handled by the client in focus.
RECURSIVE SteadyStdout(_, _)
SteadyStdout(s, lines) ==
  IF lines = <<>> THEN s
  ELSE SteadyStdout(Focus(HandleMessage(s, Head(lines)), s.focus), Tail(lines))

\* The 'close' listener of start closure p (lines 128-141); code is the exit code
\* as text, "null" when the child was ended by a signal.
OnClose(s, p, code) ==
  LET s1 == [Focus(s, s.starts[p].client) EXCEPT !.isConnected = FALSE]
  IN  IF code # "0"
      THEN CompleteStartPromise(s1, p, FALSE,
             "Todoist MCP Server exited unexpectedly with code " \o code)
      ELSE s1

\* The 'error' listener of start closure p (lines 144-147).
OnError(s, p) ==
  CompleteStartPromise(Focus(s, s.starts[p].client), p, FALSE, "spawn node ENOENT")

\* ------------------------------------------------------ MCPManagerService
\* The client `new TodoistMCPServer(config)` yields for the entry named `name`,
\* which is the value servers.get(name) returns once the entry is registered
\* (the names of a config list are distinct).
ClientFor(name) ==
  IF name = "todoist" THEN 1 ELSE IF name = "todoist-2" THEN 2 ELSE 3

\* init.spawn lists what spawn() does for the clients still to be constructed.
RunInitializeServers(s, configs) ==
  IF configs = <<>> THEN [s EXCEPT !.init.pc = "done", !.init.configs = <<>>]
  ELSE
    LET config == Head(configs)
    IN  IF config.type = "todoist" /\ FreeHandles(s) # {} /\ s.init.spawn # <<>>
        THEN LET p == NextHandle(s)
                 spawn == Head(s.init.spawn)
                 s1 == [Start(Focus(s, ClientFor(config.name)), p, spawn)
                          EXCEPT !.init.spawn = Tail(@)]
             IN  IF spawn = "throw"
                 THEN RunInitializeServers(s1, Tail(configs))        \* caught, logged
                 ELSE [s1 EXCEPT !.init.pc = "awaiting", !.init.name = config.name,
                                 !.init.await = p, !.init.configs = Tail(configs)]
        ELSE RunInitializeServers(s, Tail(configs))       \* unknown type: continue

\* executeToolCall(serverName, toolName, parameters), lines 43-49, for the call
\* owner; t is the clock reading sendMessage takes.
ManagerExecuteToolCall(s, owner, serverName, toolName, t) ==
  LET s1 == [s EXCEPT !.batches[owner[1]].p[owner[2]].registry = TRUE]
  IN  IF serverName \notin s.servers
      THEN Settle(s1, owner, FALSE, NotFoundMessage(serverName))
      ELSE SendMessage(Focus(s1, ClientFor(serverName)), owner, "", toolName, t)

\* The loop of shutdown(), lines 54-62, over the registered names still to visit.
RECURSIVE StopServers(_, _)
StopServers(s, names) ==
  IF names = {} THEN s
  ELSE LET name == CHOOSE n \in names : TRUE
       IN  StopServers(Stop(Focus(s, ClientFor(name))), names \ {name})

\* shutdown that stops every server and leaves the map as it is.
ShutdownKeepsMap(s) ==
  [StopServers(s, s.servers) EXCEPT !.init.interrupted = @ \/ s.init.pc = "awaiting"]

\* shutdown(), lines 53-64: stop() returns an already settled promise, so the
\* loop and the clear() run in consecutive microtasks of one turn.  interrupted
\* notes a shutdown() that ran while initializeServers was at its await.
Shutdown(s) ==
  [StopServers(s, s.servers) EXCEPT !.servers = {},
                                    !.init.interrupted = @ \/ s.init.pc = "awaiting"]

\* ----------------------------------------------------- ToolCallDispatcher
TodoistFunctions ==
  {"create_task", "get_tasks", "update_task", "complete_task", "get_projects"}
NotionFunctions == {"create_page", "update_page", "search_pages"}

\* determineMCPServer that routes every unlisted name to 'todoist'.
DetermineMCPServerDefaults(functionName) ==
  IF functionName \in NotionFunctions THEN "notion" ELSE "todoist"

\* determineMCPServer(functionName); "" stands for the throw of line 87.
DetermineMCPServer(functionName) ==
  IF functionName \in TodoistFunctions THEN "todoist"
  ELSE IF functionName \in NotionFunctions THEN "notion"
  ELSE ""

\* executeToolCall that hands the argument string on without JSON.parse.
ExecuteToolCallUnparsed(s, owner, toolCall, t) ==
  IF DetermineMCPServer(toolCall.name) = ""
  THEN Settle(s, owner, FALSE, UnknownFunctionMessage(toolCall.name))
  ELSE ManagerExecuteToolCall(s, owner, DetermineMCPServer(toolCall.name),
                              toolCall.name, t)

\* executeToolCall(toolCall, userId), lines 43-58, up to its await.
ExecuteToolCall(s, owner, toolCall, t) ==
  IF ~JsonParses(toolCall.arguments)
  THEN Settle(s, owner, FALSE, SyntaxErrorMessage)
  ELSE IF DetermineMCPServer(toolCall.name) = ""
  THEN Settle(s, owner, FALSE, UnknownFunctionMessage(toolCall.name))
  ELSE ManagerExecuteToolCall(s, owner, DetermineMCPServer(toolCall.name),
                              toolCall.name, t)

\* toolCalls.map(executeToolCall), line 15: the calls from index i on are started
\* one after the other in the same turn; readings[i] is what Date.now() returns
\* to call i.
RECURSIVE FanOut(_, _, _, _)
FanOut(s, b, i, readings) ==
  IF i > Len(s.batches[b].in) THEN s
  ELSE FanOut(ExecuteToolCall(s, <<b, i>>, s.batches[b].in[i], readings[i]),
              b, i + 1, readings)

\* executeToolCalls(toolCalls, userId) up to `await Promise.allSettled`.
ExecuteToolCalls(s, b, toolCalls, readings) ==
  ReturnResults(
    FanOut([s EXCEPT !.batches[b] =
              [st |-> "pending", via |-> "dispatcher", in |-> toolCalls,
               p |-> [i \in 1..Len(toolCalls) |-> NewPromise], out |-> <<>>]],
           b, 1, readings), b)

\* ----------------------------------------------------------------- inputs
\* mcpConfig of src/src/config/mcp.config.ts, and lists that add an entry of a
\* type initializeServers cannot construct.
TodoistConfig == [name |-> "todoist", type |-> "todoist", enabled |-> TRUE]
NotionConfig == [name |-> "notion", type |-> "notion", enabled |-> TRUE]
ConfigLists == {<<TodoistConfig>>, <<NotionConfig, TodoistConfig>>}
\* Lists with a second entry of type 'todoist', and with entries whose enabled
\* flag is false.
TodoistConfig2 == [name |-> "todoist-2", type |-> "todoist", enabled |-> TRUE]
DisabledConfig == [name |-> "todoist-off", type |-> "todoist", enabled |-> FALSE]
InitConfigLists ==
  { <<TodoistConfig, TodoistConfig2>>,
    <<DisabledConfig>>,
    <<TodoistConfig, DisabledConfig>> }
SpawnOutcomes == {"ok", "fail", "throw"}
\* Exit codes as text: a child that ends by itself, one ended by the SIGTERM of
\* kill() (code null), one whose spawn failed (a negative errno).
ExitCodes(st) ==
  IF st = "killed" THEN {"null", "0"} ELSE IF st = "errored" THEN {"-2"} ELSE {"0", "1"}

\* The tool calls a caller submits: mapped and unmapped names, parseable and
\* unparseable argument payloads.
ToolCalls ==
  { [id |-> "c1", name |-> "create_task", arguments |-> "{\"content\":\"buy milk\"}"],
    [id |-> "c2", name |-> "get_tasks", arguments |-> "{}"],
    [id |-> "c3", name |-> "bogus_tool", arguments |-> "{}"],
    [id |-> "c4", name |-> "create_page", arguments |-> "{}"],
    [id |-> "c5", name |-> "create_task", arguments |-> "{oops"],
    [id |-> "c6", name |-> "bogus_tool", arguments |-> "{oops"] }

ToolCall(id) == CHOOSE c \in ToolCalls : c.id = id
\* The batches a caller submits: empty, single calls, two calls on the same
\* provider, a mapped call next to an unmapped or malformed one (in both orders).
BatchInputs ==
  { <<>>,
    <<ToolCall("c1")>>,
    <<ToolCall("c2")>>,
    <<ToolCall("c1"), ToolCall("c2")>>,
    <<ToolCall("c1"), ToolCall("c3")>>,
    <<ToolCall("c6"), ToolCall("c2")>>,
    <<ToolCall("c5"), ToolCall("c1")>>,
    <<ToolCall("c4"), ToolCall("c2")>> }
TextChunks == {Marker, <<Text("x")>>}
UnsolicitedLines ==
  { Piece("json", "", FALSE, "notification"),
    Piece("json", "no-such-id", FALSE, "stray") }

\* ---------------------------------------------------------------- actions
FirstIdle(b) ==
  /\ batches[b].st = "idle"
  /\ \A a \in Batches : a < b => batches[a].st # "idle"

\* app.ts: initializeMCP() calls mcpManager.initializeServers(mcpConfig) once.
InitializeServers ==
  /\ init.pc = "idle"
  /\ \E configs \in ConfigLists, spawn \in SpawnOutcomes :
       Becomes(RunInitializeServers(
                 [Cur EXCEPT !.init.pc = "running", !.init.spawn = <<spawn>>], configs))

\* mcpManager.shutdown() (the SIGTERM handler of app.ts).
DoShutdown ==
  /\ init.pc # "idle"
  /\ Becomes(Shutdown(Cur))

\* The caller submits a batch to ToolCallDispatcher.executeToolCalls.  The calls
\* of one fan-out read the clock at the same reading or across one tick of it.
Dispatch ==
  \E b \in Batches :
    /\ FirstIdle(b)
    /\ \E toolCalls \in BatchInputs :
         \E readings \in [1..Len(toolCalls) -> {now, now + 1}] :
           /\ \A i \in 1..Len(toolCalls) :
                /\ readings[i] <= MaxClock
                /\ i > 1 => readings[i - 1] <= readings[i]
           /\ Becomes(ExecuteToolCalls(Cur, b, toolCalls, readings))

\* The client's connection state as its own flags hold it (the guard of line 224).
Ready == process # 0 /\ isConnected

\* The oldest armed timer fires; every timer has the same delay, so they fire in
\* the order they were armed, and not before the clock has left the reading at
\* which the timer was armed.
TimerFires ==
  /\ timers # <<>>
  /\ Becomes(TimeoutCallback(
               [Cur EXCEPT !.timers = Tail(@), !.now = Max(@, Head(timers).at + 1)],
               Head(timers)))

Alive(p) == child[p].st \in {"running", "killed"}

\* A 'data' event on the stdout of child p.
StdoutData(s, p, chunk) ==
  IF s.child[p].listeners = "initial" THEN InitialStdout(s, p, chunk)
  ELSE SteadyStdout(Focus(s, s.starts[p].client), chunk)

\* Child p prints text that is no JSON line on its stdout.
ChildPrintsStdout ==
  \E p \in Procs, chunk \in TextChunks :
    /\ Alive(p)
    /\ child[p].listeners = "initial"
    /\ Len(starts[p].stdoutBuffer) + Len(chunk) <= MaxBuf
    /\ Becomes(StdoutData(Cur, p, chunk))

\* Child p prints text on its stderr while the initial listener is attached (the
\* steady-state stderr listener only logs).
ChildPrintsStderr ==
  \E p \in Procs, chunk \in TextChunks :
    /\ Alive(p)
    /\ child[p].listeners = "initial"
    /\ Len(starts[p].stderrBuffer) + Len(chunk) <= MaxBuf
    /\ Becomes(InitialStderr(Cur, p, chunk))

RemoveAt(seq, k) == [i \in 1..(Len(seq) - 1) |-> IF i < k THEN seq[i] ELSE seq[i + 1]]

\* Child p answers one of the requests it has read from its stdin, in any order,
\* with a result or with a JSON-RPC error object, as one line of stdout.
ChildResponds ==
  \E p \in Procs :
    /\ Alive(p)
    /\ child[p].listeners = "steady"
    /\ \E k \in 1..Len(child[p].stdin), err \in BOOLEAN :
         LET req == child[p].stdin[k]
             line == Piece("json", req.id, err,
                           IF err THEN RemoteErrorFor(req.method)
                           ELSE ResultFor(req.method))
         IN  Becomes(StdoutData([Cur EXCEPT !.child[p].stdin = RemoveAt(@, k)],
                                p, <<line>>))

\* Child p writes a line nobody asked for: a notification, a stray id.
ChildNotifies ==
  \E p \in Procs, line \in UnsolicitedLines :
    /\ Alive(p)
    /\ child[p].listeners = "steady"
    /\ Becomes(StdoutData(Cur, p, <<line>>))

\* Child p has ended and its streams are closed: 'close' with the exit code.
ChildCloses ==
  \E p \in Procs :
    \E code \in ExitCodes(child[p].st) :
    /\ child[p].st \in {"running", "killed", "errored"}
    /\ Becomes(OnClose([Cur EXCEPT !.child[p].st = "closed"], p, code))

\* The spawn of child p failed: 'error'.
ChildErrors ==
  \E p \in Procs :
    /\ child[p].st = "failed"
    /\ Becomes(OnError([Cur EXCEPT !.child[p].st = "errored"], p))

Next ==
  \/ InitializeServers
  \/ DoShutdown
  \/ Dispatch
  \/ TimerFires
  \/ ChildPrintsStdout
  \/ ChildPrintsStderr
  \/ ChildResponds
  \/ ChildNotifies
  \/ ChildCloses
  \/ ChildErrors

Spec == Init /\ [][Next]_vars

\* ------------------------------------------------- the client used directly
\* client.start(), called by any holder of the client.
ClientStart ==
  /\ ~StartResolvesAtOnce(Cur)
  /\ FreeHandles(Cur) # {}
  /\ Cardinality(Procs \ FreeHandles(Cur)) < MaxStarts
  /\ \E spawn \in SpawnOutcomes : Becomes(Start(Cur, NextHandle(Cur), spawn))

\* client.stop(), in any state of the client.
ClientStop == Becomes(Stop(Cur))

\* client.executeToolCall(toolName, parameters), lines 206-215.
ClientExecuteToolCall(s, b, toolName, t) ==
  SendMessage([s EXCEPT !.batches[b] =
                 [st |-> "pending", via |-> "client",
                  in |-> <<[id |-> "", name |-> toolName, arguments |-> "{}"]>>,
                  p |-> <<NewPromise>>, out |-> <<>>]],
              <<b, 1>>, "", toolName, t)

ClientCall ==
  \E b \in Batches :
    /\ FirstIdle(b)
    /\ \E toolName \in {"create_task", "get_tasks"}, tick \in {0, 1} :
         /\ now + tick <= MaxClock
         /\ Becomes(ClientExecuteToolCall(Cur, b, toolName, now + tick))

ClientNext ==
  \/ ClientStart
  \/ ClientStop
  \/ ClientCall
  \/ TimerFires
  \/ ChildPrintsStdout
  \/ ChildPrintsStderr
  \/ ChildResponds
  \/ ChildNotifies
  \/ ChildCloses
  \/ ChildErrors

ClientSpec == Init /\ [][ClientNext]_vars

\* The same client with its timers firing: a setTimeout callback that is armed
\* is run by the event loop once its delay has passed.
LiveClientSpec == ClientSpec /\ WF_vars(TimerFires)

\* ------------------------------------- the client started more than once
\* client.start() whenever its guard lets it spawn: also while an earlier
\* start() waits for the marker, and after stop().
ClientStartAgain ==
  /\ ~StartResolvesAtOnce(Cur)
  /\ FreeHandles(Cur) # {}
  /\ \E spawn \in SpawnOutcomes : Becomes(Start(Cur, NextHandle(Cur), spawn))

RestartNext ==
  \/ ClientStartAgain
  \/ ClientStop
  \/ TimerFires
  \/ ChildPrintsStdout
  \/ ChildPrintsStderr
  \/ ChildResponds
  \/ ChildNotifies
  \/ ChildCloses
  \/ ChildErrors

RestartSpec == Init /\ [][RestartNext]_vars

\* ------------------------------------------- the steady-state stdout stream
\* A 'data' event on the stdout of child p, in steady state, that carries bytes:
\* the listener of lines 58-61, run by the client that spawned p.
SteadyData(s, p, bytes) == SteadyStdout(Focus(s, s.starts[p].client), Lines(bytes))

\* The line child p writes to answer the request req.
ResponseLine(req, err) ==
  Piece("json", req.id, err,
        IF err THEN RemoteErrorFor(req.method) ELSE ResultFor(req.method))

\* Child p may write to its stdout: it runs, its stream has the steady-state
\* listener, and nothing it wrote before is still to be delivered.
Writes(p) == Alive(p) /\ child[p].listeners = "steady" /\ child[p].held = <<>>

\* Child p answers a request with one line, delivered in one 'data' event.
ChildRespondsLine ==
  \E p \in Procs :
    /\ Writes(p)
    /\ \E k \in 1..Len(child[p].stdin), err \in BOOLEAN :
         Becomes(SteadyData([Cur EXCEPT !.child[p].stdin = RemoveAt(@, k)], p,
                            <<ResponseLine(child[p].stdin[k], err), Newline>>))

\* Child p answers a request with one line of which the pipe delivers the first
\* part in a 'data' event of its own; the rest of the line is still to come.
ChildRespondsInParts ==
  \E p \in Procs :
    /\ Writes(p)
    /\ parseErrors < MaxParseErrors
    /\ \E k \in 1..Len(child[p].stdin), err \in BOOLEAN :
         LET line == ResponseLine(child[p].stdin[k], err)
         IN  Becomes(SteadyData(
                       [Cur EXCEPT !.child[p].stdin = RemoveAt(@, k),
                                   !.child[p].held = <<TailOf(line), Newline>>],
                       p, <<HeadOf(line)>>))

\* The rest of a line child p has written is delivered in the next 'data' event.
ChildDeliversRest ==
  \E p \in Procs :
    /\ Alive(p)
    /\ child[p].listeners = "steady"
    /\ child[p].held # <<>>
    /\ Becomes(SteadyData([Cur EXCEPT !.child[p].held = <<>>], p, child[p].held))

\* Child p answers two requests and the pipe delivers both lines in one 'data'
\* event.
ChildRespondsTogether ==
  \E p \in Procs :
    /\ Writes(p)
    /\ \E k \in 1..Len(child[p].stdin), j \in 1..Len(child[p].stdin), err \in BOOLEAN :
         /\ k < j
         /\ Becomes(SteadyData(
                      [Cur EXCEPT !.child[p].stdin = RemoveAt(RemoveAt(@, j), k)], p,
                      <<ResponseLine(child[p].stdin[k], err), Newline,
                        ResponseLine(child[p].stdin[j], err), Newline>>))

\* Child p writes a line that is no JSON text (a log line) to its stdout.
ChildPrintsNoise ==
  \E p \in Procs :
    /\ Writes(p)
    /\ parseErrors < MaxParseErrors
    /\ Becomes(SteadyData(Cur, p, <<Text("x"), Newline>>))

\* Child p writes a log line and the answer to a request, in either order, and
\* the pipe delivers both in one 'data' event.
ChildRespondsAmidNoise ==
  \E p \in Procs :
    /\ Writes(p)
    /\ parseErrors < MaxParseErrors
    /\ \E k \in 1..Len(child[p].stdin), err \in BOOLEAN, noiseFirst \in BOOLEAN :
         LET line == ResponseLine(child[p].stdin[k], err)
         IN  Becomes(SteadyData(
                       [Cur EXCEPT !.child[p].stdin = RemoveAt(@, k)], p,
                       IF noiseFirst THEN <<Text("x"), Newline, line, Newline>>
                       ELSE <<line, Newline, Text("x"), Newline>>))

FrameNext ==
  \/ ClientStart
  \/ ClientCall
  \/ TimerFires
  \/ ChildPrintsStdout
  \/ ChildRespondsLine
  \/ ChildRespondsInParts
  \/ ChildDeliversRest
  \/ ChildRespondsTogether
  \/ ChildPrintsNoise
  \/ ChildRespondsAmidNoise

FrameSpec == Init /\ [][FrameNext]_vars

\* ------------------------------------------- the manager starting providers
\* initializeServers on a list that holds several providers of type 'todoist';
\* spawn() may do something else for each of them.
IsTodoist(config) == config.type = "todoist"
InitializeAll ==
  /\ init.pc = "idle"
  /\ \E configs \in InitConfigLists :
       \E spawns \in [1..Len(SelectSeq(configs, IsTodoist)) -> SpawnOutcomes] :
         Becomes(RunInitializeServers(
                   [Cur EXCEPT !.init.pc = "running", !.init.spawn = spawns], configs))

InitNext ==
  \/ InitializeAll
  \/ DoShutdown
  \/ TimerFires
  \/ ChildPrintsStdout
  \/ ChildPrintsStderr
  \/ ChildResponds
  \/ ChildNotifies
  \/ ChildCloses
  \/ ChildErrors

InitSpec == Init /\ [][InitNext]_vars

\* ------------------------------------------------------ the webhook router
\* express.json(), mounted before the route handler: a body it cannot parse ends
\* the request with 400 and the handler is not called.
BodyParses(body) == body \in {"{\"update_id\":1}", "{\"update_id\":2}"}

\* secret !== process.env.TELEGRAM_SECRET_TOKEN, for a variable that may be unset.
StrictNotEqual(secret, env) == ~env.defined \/ secret # env.value

\* The handler without the comparison of the secret.
WebhookPostUnchecked(w, secret, body, outcome) ==
  LET entry == [secret |-> secret, env |-> w.env, body |-> body, outcome |-> outcome,
                status |-> 0]
  IN  IF ~BodyParses(body)
      THEN [w EXCEPT !.responses = Append(@, [entry EXCEPT !.outcome = "", !.status = 400])]
      ELSE [w EXCEPT !.updates = Append(@, body),
                     !.responses = Append(@, [entry EXCEPT !.status =
                                       IF outcome = "resolves" THEN 200 ELSE 500])]

\* POST /webhook/:secret, lines 9-25: outcome is what botService.handleUpdate does
\* with the body.  A response is logged with the request that got it and the
\* value the environment variable had.
WebhookPost(w, secret, body, outcome) ==
  LET entry == [secret |-> secret, env |-> w.env, body |-> body, outcome |-> "",
                status |-> 0]
  IN  IF ~BodyParses(body)
      THEN [w EXCEPT !.responses = Append(@, [entry EXCEPT !.status = 400])]
      ELSE IF secret = "" \/ StrictNotEqual(secret, w.env)
      THEN [w EXCEPT !.responses = Append(@, [entry EXCEPT !.status = 401])]
      ELSE [w EXCEPT !.updates = Append(@, body),
                     !.responses = Append(@, [entry EXCEPT !.outcome = outcome,
                                       !.status = IF outcome = "resolves" THEN 200
                                                  ELSE 500])]

Secrets == {"testsecret", "wrongsecret"}
Bodies == {"{\"update_id\":1}", "{\"update_id\":2}", "{oops"}
EnvValues == {[defined |-> TRUE, value |-> "testsecret"],
              [defined |-> TRUE, value |-> "othersecret"]}
UnchangedGateway ==
  UNCHANGED <<now, process, isConnected, pendingRequests, timers, child, starts,
              batches, servers, init, bench, parseErrors>>

\* TELEGRAM_SECRET_TOKEN is set in the environment (dotenv at startup, or later).
SetSecretToken ==
  /\ \E env \in EnvValues : env # webhook.env /\ webhook' = [webhook EXCEPT !.env = env]
  /\ UnchangedGateway

\* A request arrives at the endpoint.
PostWebhook ==
  /\ Len(webhook.responses) < MaxRequests
  /\ \E secret \in Secrets, body \in Bodies, outcome \in {"resolves", "rejects"} :
       webhook' = WebhookPost(webhook, secret, body, outcome)
  /\ UnchangedGateway

WebhookNext ==
  \/ SetSecretToken
  \/ PostWebhook

WebhookSpec == Init /\ [][WebhookNext]_vars

\* ================================================================ claims
Calls == UNION {{<<b, i>> : i \in 1..Len(batches[b].p)} : b \in Batches}
PromiseOf(c) == batches[c[1]].p[c[2]]
InputOf(c) == batches[c[1]].in[c[2]]
ViaDispatcher(c) == batches[c[1]].via = "dispatcher"
Returned(c) == batches[c[1]].st = "returned"
ResultOf(c) == batches[c[1]].out[c[2]]
TimerArmed(c) == \E k \in 1..Len(timers) : timers[k].owner = c
RequestUnanswered(c) ==
  \E p \in Procs : \E k \in 1..Len(child[p].stdin) : child[p].stdin[k].owner = c

\* C1: a returned batch has one entry per input call, entry i carries the id of
\* input call i, and every entry has either content and no error, or an error and
\* null content.
C1_OneResultPerCall ==
  \A b \in Batches :
    batches[b].st = "returned" =>
      /\ Len(batches[b].out) = Len(batches[b].in)
      /\ \A i \in 1..Len(batches[b].in) :
           LET r == batches[b].out[i]
           IN  /\ r.tool_call_id = batches[b].in[i].id
               /\ \/ r.error = "" /\ r.content # "null"
                  \/ r.error # "" /\ r.content = "null"

\* A batch of two has returned, its first call answered by the provider and its
\* second call failed.
C1_Witness ==
  \E b \in Batches :
    /\ batches[b].st = "returned"
    /\ Len(batches[b].out) = 2
    /\ batches[b].out[1].content = ResultFor("create_task")
    /\ batches[b].out[2].error = TimeoutMessage("1")
    /\ batches[b].p[1].rid = "0"

\* C2: a batch resolves once its calls have settled; so a call that is still
\* unsettled always has its timer armed (the one thing left that settles it when
\* no response comes).
C2_BatchResolves ==
  \A c \in Calls : PromiseOf(c).st = "pending" => TimerArmed(c)

\* C3: a call is settled with the response the provider produced for its own
\* request: a fulfilled call holds the result for its tool, a call rejected with
\* a remote error holds the error for its tool.
LocalErrors(c) ==
  { NotConnectedMessage, TimeoutMessage(PromiseOf(c).rid), SyntaxErrorMessage,
    UnknownFunctionMessage(InputOf(c).name), NotFoundMessage("todoist"),
    NotFoundMessage("notion") }
C3_OwnResponse ==
  \A c \in Calls :
    /\ PromiseOf(c).st = "fulfilled" => PromiseOf(c).val = ResultFor(InputOf(c).name)
    /\ PromiseOf(c).st = "rejected" =>
         PromiseOf(c).val \in LocalErrors(c) \cup {RemoteErrorFor(InputOf(c).name)}

\* C4: a returned batch has waited for every call; a failed call is reported with
\* its own error text and a call reported as successful carries the provider's
\* result for that call.
C4_NoFailFast ==
  \A c \in Calls :
    (ViaDispatcher(c) /\ Returned(c)) =>
      /\ PromiseOf(c).st # "pending"
      /\ PromiseOf(c).st = "rejected" =>
           ResultOf(c).error = PromiseOf(c).val /\ ResultOf(c).content = "null"
      /\ PromiseOf(c).st = "fulfilled" =>
           ResultOf(c).error = "" /\ ResultOf(c).content = ResultFor(InputOf(c).name)

\* The tool names the routing table of determineMCPServer lists.
RoutedNames == TodoistFunctions \cup NotionFunctions

\* C5 as stated: every call whose tool name is unmapped is rejected with
\* "Unknown function: <name>" and never reaches the Registry.
C5_UnmappedIsUnknownFunction ==
  \A c \in Calls :
    (ViaDispatcher(c) /\ InputOf(c).name \notin RoutedNames) =>
      /\ PromiseOf(c).st = "rejected"
      /\ PromiseOf(c).val = UnknownFunctionMessage(InputOf(c).name)
      /\ ~PromiseOf(c).registry

\* C5 amended: a call with an unmapped name never reaches the Registry and is
\* rejected; its error is "Unknown function: <name>" when its arguments parse
\* (unparseable arguments are reported first); mapped calls with parseable
\* arguments are passed to the Registry.
C5_UnmappedNeverReachesRegistry ==
  \A c \in Calls :
    ViaDispatcher(c) =>
      /\ InputOf(c).name \notin RoutedNames =>
           /\ PromiseOf(c).st = "rejected"
           /\ ~PromiseOf(c).registry
           /\ PromiseOf(c).rid = ""
           /\ JsonParses(InputOf(c).arguments) =>
                /\ PromiseOf(c).val = UnknownFunctionMessage(InputOf(c).name)
                /\ Returned(c) =>
                     ResultOf(c).error = UnknownFunctionMessage(InputOf(c).name)
      /\ (InputOf(c).name \in RoutedNames /\ JsonParses(InputOf(c).arguments))
           => PromiseOf(c).registry

\* Scenario 6 of the spec: create_task answered by the provider, bogus_tool
\* reported as unknown, in one returned batch.
C5_Witness ==
  \E b \in Batches :
    /\ batches[b].st = "returned"
    /\ Len(batches[b].out) = 2
    /\ batches[b].out[1] = [tool_call_id |-> "c1", content |-> ResultFor("create_task"),
                             error |-> ""]
    /\ batches[b].out[2] = [tool_call_id |-> "c3", content |-> "null",
                             error |-> UnknownFunctionMessage("bogus_tool")]
    /\ ~batches[b].p[2].registry

\* C6: a call with unparseable arguments is rejected by itself: it reaches neither
\* the Registry nor a child's stdin, it is reported as an error, the batch is
\* pending or returned, and the parseable mapped calls next to it reach the
\* Registry.
C6_MalformedIsPerCall ==
  \A c \in Calls :
    ViaDispatcher(c) =>
      /\ batches[c[1]].st \in {"pending", "returned"}
      /\ ~JsonParses(InputOf(c).arguments) =>
           /\ PromiseOf(c).st = "rejected"
           /\ PromiseOf(c).val = SyntaxErrorMessage
           /\ ~PromiseOf(c).registry
           /\ PromiseOf(c).rid = ""
           /\ ~RequestUnanswered(c)
           /\ ~TimerArmed(c)
           /\ Returned(c) => ResultOf(c).error = SyntaxErrorMessage
                               /\ ResultOf(c).content = "null"
      /\ (JsonParses(InputOf(c).arguments) /\ DetermineMCPServer(InputOf(c).name) # "")
           => PromiseOf(c).registry

\* A returned batch whose first call had unparseable arguments and whose second
\* call was answered by the provider.
C6_Witness ==
  \E b \in Batches :
    /\ batches[b].st = "returned"
    /\ Len(batches[b].out) = 2
    /\ batches[b].out[1].error = SyntaxErrorMessage
    /\ batches[b].out[2].content = ResultFor("create_task")
    /\ batches[b].out[2].error = ""

\* C7: a call made while the client is not Ready is rejected at once with the
\* not-connected error, writes nothing to a child's stdin, inserts nothing into
\* the pending table and arms no timer.
C7_NotReadyRejects ==
  [][\A b \in Batches :
       (batches[b].st = "idle" /\ batches'[b].st # "idle" /\ ~Ready) =>
         /\ pendingRequests' = pendingRequests
         /\ timers' = timers
         /\ \A p \in Procs : child'[p].stdin = child[p].stdin
         /\ \A i \in 1..Len(batches'[b].p) :
              /\ batches'[b].p[i].st = "rejected"
              /\ batches'[b].p[i].val = NotConnectedMessage
              /\ batches'[b].p[i].rid = ""]_vars

\* A call was rejected as not connected on a client whose child runs and has not
\* yet printed the marker, and nothing was written or inserted.
C7_Witness ==
  /\ process # 0
  /\ child[process].st = "running"
  /\ child[process].listeners = "initial"
  /\ ~isConnected
  /\ child[process].stdin = <<>>
  /\ pendingRequests = EmptyMap
  /\ \E c \in Calls : PromiseOf(c).st = "rejected" /\ PromiseOf(c).val = NotConnectedMessage

\* C8: a call whose timer has fired with no matching response is rejected with
\* the request-timeout error.
NoMatchingResponse(c) ==
  \A d \in Calls : PromiseOf(d).rid = PromiseOf(c).rid => RequestUnanswered(d)
C8_TimeoutRejectsItsCall ==
  \A c \in Calls :
    (PromiseOf(c).rid # "" /\ ~TimerArmed(c) /\ NoMatchingResponse(c)) =>
      /\ PromiseOf(c).st = "rejected"
      /\ PromiseOf(c).val = TimeoutMessage(PromiseOf(c).rid)

\* C9: handling a parsed frame whose id matches no pending entry (no id, a stray
\* id, the id of a request already removed) changes nothing, and a matching
\* frame after it in the same chunk is handled as if it had come alone.
RequestIds == {"init"} \cup {ToString(n) : n \in 0..(MaxClock + 1)}
FramesWithId(id) ==
  {Piece("json", id, err, "late") : err \in BOOLEAN}
UnmatchedFrames ==
  UNION {FramesWithId(id) :
           id \in ({"", "no-such-id"} \cup RequestIds) \ DOMAIN pendingRequests}
C9_UnmatchedFrameDiscarded ==
  \A line \in UnmatchedFrames :
    /\ HandleMessage(Cur, line) = Cur
    /\ \A id \in DOMAIN pendingRequests : \A next \in FramesWithId(id) :
         /\ SteadyStdout(Cur, <<line, next>>) = HandleMessage(Cur, next)
         /\ id \notin DOMAIN HandleMessage(Cur, next).pendingRequests

\* A call was rejected by its timeout, the child answered its request afterwards,
\* and the call was settled once.
C9_Witness ==
  \E c \in Calls :
    /\ PromiseOf(c).rid # ""
    /\ PromiseOf(c).st = "rejected"
    /\ PromiseOf(c).val = TimeoutMessage(PromiseOf(c).rid)
    /\ PromiseOf(c).settled = 1
    /\ ~RequestUnanswered(c)
    /\ PromiseOf(c).rid \notin DOMAIN pendingRequests
    /\ \E d \in Calls : PromiseOf(d).st = "pending" /\ PromiseOf(d).rid \in DOMAIN pendingRequests

\* The provider names the dispatcher routes to, a call routed to each, and the
\* state shutdown() leaves behind when it runs in the current state.
ProviderNames == {"todoist", "notion"}
ProbeCall(serverName) ==
  IF serverName = "todoist" THEN ToolCall("c1") ELSE ToolCall("c4")
AfterShutdown == [Shutdown(Cur) EXCEPT !.batches = [b \in Batches |-> NoBatch]]

\* C10: whatever operations preceded it, after shutdown() the map is empty, and
\* a call for any provider name, executed next, fails with the
\* provider-not-found error without reaching a client.
C10_ShutdownEmptiesRegistry ==
  /\ AfterShutdown.servers = {}
  /\ \A serverName \in ProviderNames :
       LET s == ExecuteToolCalls(AfterShutdown, 1, <<ProbeCall(serverName)>>, <<now>>)
       IN  /\ s.batches[1].p[1].st = "rejected"
           /\ s.batches[1].p[1].val = NotFoundMessage(serverName)
           /\ s.batches[1].p[1].rid = ""

\* shutdown() has stopped the registered client (its child was sent SIGTERM), the
\* map is empty, and a create_task call dispatched afterwards came back with the
\* provider-not-found error.
C10_Witness ==
  /\ servers = {}
  /\ process = 0
  /\ \E p \in Procs : child[p].st \in {"killed", "closed"} /\ starts[p].outcome = "resolved"
  /\ \E b \in Batches :
       /\ batches[b].st = "returned"
       /\ Len(batches[b].out) = 1
       /\ batches[b].out[1].error = NotFoundMessage("todoist")

\* The fields of client c, the names initializeServers registers, the handles
\* client c has spawned, and the handshake of start closure p being outstanding
\* (its timer is the one thing left that settles it when no reply comes).
ClientState(c) ==
  IF c = 1
  THEN [process |-> process, isConnected |-> isConnected,
        pendingRequests |-> pendingRequests]
  ELSE bench[c]
ConfigNames == {"todoist", "todoist-2", "todoist-off"}
HandlesOf(c) == {p \in Procs : starts[p].client = c}
HandshakeOutstanding(p) == \E k \in 1..Len(timers) : timers[k].owner = <<0, p>>
ProcessEnded(p) == child[p].st \in {"closed", "errored", "unspawned"}

\* C11: a provider whose start() has failed (its process has ended, or failed to
\* spawn, and no handshake is outstanding) does not keep initializeServers from
\* the later entries of the list; a provider whose start() was rejected is not
\* in the registry; a registered provider is one whose start() resolved, and a
\* provider whose start() resolved is registered until it is stopped.
C11_FailureIsCaught ==
  /\ \A p \in Procs :
       (ProcessEnded(p) /\ ~HandshakeOutstanding(p)) =>
         ~(init.pc = "awaiting" /\ init.await = p /\ init.configs # <<>>)
  /\ \A name \in ConfigNames :
       LET c == ClientFor(name)
       IN  /\ (\E p \in HandlesOf(c) : starts[p].outcome = "rejected") =>
                name \notin servers
           /\ name \in servers =>
                \E p \in HandlesOf(c) : starts[p].outcome = "resolved"
           /\ (\E p \in HandlesOf(c) :
                  starts[p].outcome = "resolved" /\ ClientState(c).process = p) =>
                name \in servers

\* C12: for a config record with enabled = false no client is constructed and
\* started (no child process is spawned for it) and its name is never registered.
C12_DisabledIsSkipped ==
  /\ HandlesOf(ClientFor(DisabledConfig.name)) = {}
  /\ DisabledConfig.name \notin servers

\* C13: when the provider answers the request of a call the Registry delegated,
\* while that call is still waiting, the call settles in that step with the
\* provider's answer to it: fulfilled with the result, or rejected with the
\* message of the error object; and a batch that returns in the step reports
\* that outcome for the call.
C13_ClientOutcomeUnchanged ==
  [][\A b \in Batches : \A i \in 1..Len(batches[b].p) :
       ( /\ batches[b].via = "dispatcher"
         /\ batches[b].p[i].registry
         /\ batches[b].p[i].st = "pending"
         /\ \E p \in Procs :
              /\ \E k \in 1..Len(child[p].stdin) : child[p].stdin[k].owner = <<b, i>>
              /\ \A k \in 1..Len(child'[p].stdin) : child'[p].stdin[k].owner # <<b, i>> )
       => LET name == batches[b].in[i].name
              pr == batches'[b].p[i]
          IN  /\ \/ pr.st = "fulfilled" /\ pr.val = ResultFor(name)
                 \/ pr.st = "rejected" /\ pr.val = RemoteErrorFor(name)
              /\ batches'[b].st = "returned" =>
                   /\ pr.st = "fulfilled" => batches'[b].out[i].content = pr.val
                   /\ pr.st = "rejected" => batches'[b].out[i].error = pr.val]_vars

\* C14: once start() has settled, no later event changes its outcome or the
\* error it was rejected with.
C14_StartSettlesOnce ==
  [][\A p \in Procs :
       starts[p].outcome \in {"resolved", "rejected"} =>
         /\ starts'[p].outcome = starts[p].outcome
         /\ starts'[p].error = starts[p].error
         /\ starts'[p].startPromiseCompleted]_vars

\* start() was rejected for output on stderr before the marker; the marker and
\* the reply to the handshake came afterwards, and start() is still rejected
\* with the first error.
C14_Witness ==
  \E p \in Procs :
    /\ starts[p].outcome = "rejected"
    /\ starts[p].error = "Todoist MCP Server failed to start"
    /\ starts[p].initSettled = 1
    /\ child[p].listeners = "steady"

\* C15: start() settles: a start() that is still unsettled has something left
\* that settles it, either its child process, which has not ended, or its
\* outstanding handshake, whose reply or timeout is still to come.
C15_StartSettles ==
  \A p \in Procs :
    starts[p].outcome = "pending" => (~ProcessEnded(p) \/ HandshakeOutstanding(p))

\* C16: an entry stays in the pending table, under its caller's name, for as long
\* as the caller that inserted it is unsettled; an entry that is in the table
\* belongs to an unsettled caller; and no caller is settled twice.
C16_EntryRemovedOnce ==
  /\ \A c \in Calls :
       /\ (PromiseOf(c).st = "pending" /\ PromiseOf(c).rid # "") =>
            /\ PromiseOf(c).rid \in DOMAIN pendingRequests
            /\ pendingRequests[PromiseOf(c).rid] = c
       /\ PromiseOf(c).settled <= 1
  /\ \A id \in DOMAIN pendingRequests :
       LET owner == pendingRequests[id]
       IN  IF owner[1] = 0 THEN starts[owner[2]].initSettled = 0
           ELSE PromiseOf(owner).st = "pending"
  /\ \A p \in Procs : starts[p].initSettled <= 1

\* C17: when the child process of the client exits while calls are outstanding,
\* the client is Disconnected afterwards, every call that was pending has been
\* rejected, and the pending table is empty.
C17_ExitDrainsPending ==
  [][\A p \in Procs :
       ( /\ process = p
         /\ child[p].st # "closed" /\ child'[p].st = "closed"
         /\ \E b \in Batches : \E i \in 1..Len(batches[b].p) :
              /\ batches[b].p[i].st = "pending"
              /\ batches[b].p[i].rid \in DOMAIN pendingRequests )
       => /\ ~isConnected'
          /\ pendingRequests' = EmptyMap
          /\ \A b \in Batches : \A i \in 1..Len(batches[b].p) :
               batches[b].p[i].st = "pending" => batches'[b].p[i].st = "rejected"]_vars

\* C18: in every state, stop() leaves the client without a process handle and
\* Disconnected (not Ready, as the guard of sendMessage reads the state); a
\* second stop() right after it sends no signal and changes nothing; and stop()
\* on a client without a process handle (never started, or stopped before)
\* sends no signal and changes nothing.
C18_StopIsIdempotent ==
  /\ Stop(Cur).process = 0
  /\ ~(Stop(Cur).process # 0 /\ Stop(Cur).isConnected)
  /\ process # 0 => ~Stop(Cur).isConnected
  /\ Stop(Stop(Cur)) = Stop(Cur)
  /\ \A p \in Procs : Stop(Stop(Cur)).child[p].kills = Stop(Cur).child[p].kills
  /\ process = 0 => Stop(Cur) = Cur
  /\ process # 0 => Stop(Cur).child[process].kills = child[process].kills + 1

\* stop() has ended a connected client: its child got one SIGTERM, the handle is
\* cleared and the client is Disconnected.
C18_Witness ==
  /\ process = 0
  /\ ~isConnected
  /\ \E p \in Procs :
       /\ child[p].kills = 1
       /\ child[p].st = "killed"
       /\ child[p].listeners = "steady"

\* A logged request carried the secret the environment held when it arrived;
\* the bodies of the logged requests that should have reached handleUpdate.
RightSecret(r) == r.env.defined /\ r.secret = r.env.value
ShouldForward(r) == RightSecret(r) /\ BodyParses(r.body)
RECURSIVE BodiesOf(_)
BodiesOf(rs) == IF rs = <<>> THEN <<>> ELSE <<Head(rs).body>> \o BodiesOf(Tail(rs))

\* C19 as stated: every request with a wrong secret is answered 401 and is not
\* passed to handleUpdate; a request with the right secret is answered 200 when
\* handleUpdate resolves and 500 when it rejects.
C19_WrongSecretIs401 ==
  /\ \A k \in 1..Len(webhook.responses) :
       LET r == webhook.responses[k]
       IN  /\ ~RightSecret(r) => r.status = 401
           /\ (RightSecret(r) /\ r.outcome = "resolves") => r.status = 200
           /\ (RightSecret(r) /\ r.outcome = "rejects") => r.status = 500
  /\ \A k \in 1..Len(webhook.updates) :
       \E j \in 1..Len(webhook.responses) :
         RightSecret(webhook.responses[j]) /\ webhook.responses[j].body = webhook.updates[k]

\* C19 amended: handleUpdate is invoked for exactly the requests with the right
\* secret and a body the JSON parser accepts, once each and in order; a request
\* whose body the parser rejects is answered 400 whatever its secret; a wrong
\* secret with an accepted body is answered 401; a forwarded request is
\* answered 200 when handleUpdate resolves and 500 when it rejects.
C19_OnlyRightSecretForwarded ==
  /\ webhook.updates = BodiesOf(SelectSeq(webhook.responses, ShouldForward))
  /\ \A k \in 1..Len(webhook.responses) :
       LET r == webhook.responses[k]
       IN  /\ ~BodyParses(r.body) => r.status = 400
           /\ (BodyParses(r.body) /\ ~RightSecret(r)) => r.status = 401
           /\ ShouldForward(r) =>
                /\ r.outcome \in {"resolves", "rejects"}
                /\ r.status = IF r.outcome = "resolves" THEN 200 ELSE 500

\* Two requests were answered: one with a wrong secret with 401, then one with
\* the right secret whose handleUpdate rejected with 500; only the second body
\* reached handleUpdate.
C19_Witness ==
  /\ Len(webhook.responses) = 2
  /\ webhook.responses[1].secret = "wrongsecret"
  /\ webhook.responses[1].status = 401
  /\ RightSecret(webhook.responses[2])
  /\ webhook.responses[2].status = 500
  /\ webhook.updates = <<webhook.responses[2].body>>

\* C20: in the step in which calls insert their entries, the id of every new
\* entry is in the table for no other request: not for one that was pending
\* before the step and not for another call of the same fan-out; and the
\* handshake id 'init' is not in the table when a handshake inserts it.
C20_IdUniqueWhenInserted ==
  [][/\ \A b \in Batches :
          (batches[b].st = "idle" /\ batches'[b].st # "idle") =>
            \A i \in 1..Len(batches'[b].p) :
              batches'[b].p[i].rid # "" =>
                /\ batches'[b].p[i].rid \notin DOMAIN pendingRequests
                /\ \A j \in 1..Len(batches'[b].p) :
                     j # i => batches'[b].p[j].rid # batches'[b].p[i].rid
     /\ \A p \in Procs :
          (starts[p].client = 1 /\ ~HandshakeOutstanding(p) /\ HandshakeOutstanding(p)')
            => "init" \notin DOMAIN pendingRequests]_vars

\* A step in which the oldest armed timer fires, and a timer's call having been
\* settled by the response to its request.
TimerFiring == timers # <<>> /\ timers' = Tail(timers)
SettledByResponse(owner) ==
  IF owner[1] = 0 THEN starts[owner[2]].outcome = "resolved"
  ELSE \/ PromiseOf(owner).st = "fulfilled"
       \/ /\ PromiseOf(owner).st = "rejected"
          /\ PromiseOf(owner).val = RemoteErrorFor(InputOf(owner).name)

\* C21: the timer of a call that its response has settled does nothing when its
\* delay runs out: it removes no entry from the pending table, whoever inserted
\* it, and changes the state of no caller's promise.
C21_TimerCancelledByResponse ==
  [][(TimerFiring /\ SettledByResponse(Head(timers).owner)) =>
       /\ \A c \in Clients :
            c = Head(timers).client => ClientState(c)' = ClientState(c)
       /\ \A b \in Batches : \A i \in 1..Len(batches[b].p) :
            /\ batches'[b].p[i].st = batches[b].p[i].st
            /\ batches'[b].p[i].val = batches[b].p[i].val
       /\ \A p \in Procs : starts'[p].outcome = starts[p].outcome]_vars

\* A call the client accepted (it passed the connected check, so it was given a
\* request id and an entry in the pending table), and a call that has settled.
Accepted(b, i) == i <= Len(batches[b].p) /\ batches[b].p[i].rid # ""
Settled(b, i) == i <= Len(batches[b].p) /\ batches[b].p[i].st # "pending"

\* C22: with timers firing, every call the client accepted eventually settles,
\* whatever the other calls, the provider, the child process and stop() do.
C22_AcceptedCallSettles ==
  \A b \in Batches : \A i \in 1..2 : [](Accepted(b, i) => <>Settled(b, i))

\* A step in which output of child p that holds no marker reaches the initial
\* listeners of its start(): one of the closure's buffers grows (a buffer in
\* which the marker is found is cleared).
BufferGrows(p) ==
  \/ Len(starts'[p].stdoutBuffer) > Len(starts[p].stdoutBuffer)
  \/ Len(starts'[p].stderrBuffer) > Len(starts[p].stderrBuffer)

\* C23: output before the marker is only buffered: the step that takes it in
\* leaves the pending tables, the callers' promises and the connection flags as
\* they are, and does not settle start().
C23_OutputBeforeMarkerIsBuffered ==
  [][\A p \in Procs :
       BufferGrows(p) =>
         /\ pendingRequests' = pendingRequests
         /\ isConnected' = isConnected
         /\ bench' = bench
         /\ batches' = batches
         /\ timers' = timers
         /\ starts'[p].outcome = starts[p].outcome]_vars

\* C24: a start() call runs the readiness transition at most once: its closure
\* installs the steady-state handlers and sends the initialize request for the
\* first marker it sees and for no marker after it.
C24_ReadyTransitionOnce ==
  \A p \in Procs : starts[p].initSent <= 1

\* Chunks that hold one line JSON.parse rejects, and equality of two states up
\* to the log of parse failures.
NoiseChunks ==
  { <<Text("x"), Newline>>,
    <<TailOf(Piece("json", "0", FALSE, "late")), Newline>> }
SameButLog(a, b) == [a EXCEPT !.parseErrors = 0] = [b EXCEPT !.parseErrors = 0]

\* C25: a 'data' event with a line that is no JSON text is logged and changes
\* nothing else; a well-formed frame before or after it in the same chunk, or in
\* the next chunk, is handled as if the line had not been there, and removes
\* the entry of its request.
C25_UnparseableLineDiscarded ==
  \A p \in Procs : \A noise \in NoiseChunks :
    child[p].listeners = "steady" =>
      /\ SameButLog(SteadyData(Cur, p, noise), Cur)
      /\ SteadyData(Cur, p, noise).parseErrors = parseErrors + 1
      /\ \A id \in DOMAIN pendingRequests : \A good \in FramesWithId(id) :
           LET alone == SteadyData(Cur, p, <<good, Newline>>)
           IN  /\ id \notin DOMAIN alone.pendingRequests
               /\ SameButLog(SteadyData(Cur, p, noise \o <<good, Newline>>), alone)
               /\ SameButLog(SteadyData(Cur, p, <<good, Newline>> \o noise), alone)
               /\ SameButLog(SteadyData(SteadyData(Cur, p, noise), p,
                                        <<good, Newline>>), alone)

\* The child has written one log line to its stdout in steady state, all of its
\* output has been delivered, and a call was fulfilled with the provider's
\* result while another call is still waiting in the table.
C25_Witness ==
  /\ parseErrors = 1
  /\ \A p \in Procs : child[p].held = <<>>
  /\ \E c \in Calls :
       /\ PromiseOf(c).st = "fulfilled"
       /\ PromiseOf(c).val = ResultFor(InputOf(c).name)
  /\ \E c \in Calls :
       /\ PromiseOf(c).st = "pending"
       /\ PromiseOf(c).rid \in DOMAIN pendingRequests

\* The provider has answered the request of call c and the whole line has been
\* delivered to the client, while the call's timer had not fired; no other call
\* was sent under the same id.
ResponseDelivered(c) ==
  /\ PromiseOf(c).rid # ""
  /\ ~RequestUnanswered(c)
  /\ \A p \in Procs : child[p].held = <<>>
  /\ TimerArmed(c)
  /\ \A d \in Calls : d # c => PromiseOf(d).rid # PromiseOf(c).rid

\* C26: however the pipe cuts the stdout stream into 'data' events, a response
\* line that has been delivered completely has settled its request: with the
\* provider's result, or with the message of its error object.
C26_FramingIgnoresChunking ==
  \A c \in Calls :
    ResponseDelivered(c) =>
      \/ /\ PromiseOf(c).st = "fulfilled"
         /\ PromiseOf(c).val = ResultFor(InputOf(c).name)
      \/ /\ PromiseOf(c).st = "rejected"
         /\ PromiseOf(c).val = RemoteErrorFor(InputOf(c).name)

\* C27: once a start() of a client has been rejected, the client is not Ready
\* and none of the child processes it spawned is running.
C27_RejectedStartLeavesNothing ==
  \A p \in Procs :
    starts[p].outcome = "rejected" =>
      LET c == starts[p].client
      IN  /\ ~(ClientState(c).process # 0 /\ ClientState(c).isConnected)
          /\ \A q \in HandlesOf(c) : child[q].st # "running"

\* C28: when shutdown() has run while initializeServers was awaiting a start()
\* and initializeServers has finished as well, the registry is empty and no
\* child process of a provider is running.
C28_ShutdownDuringInitIsSafe ==
  (init.interrupted /\ init.pc = "done") =>
    /\ servers = {}
    /\ \A p \in Procs : child[p].st # "running"

\* The child processes of client c that are running.
Running(c) == {p \in HandlesOf(c) : child[p].st = "running"}

\* C29: a client has at most one running child process, and that one is the
\* process its handle names.
C29_OneLiveChild ==
  \A c \in Clients :
    /\ Cardinality(Running(c)) <= 1
    /\ \A p \in Running(c) : ClientState(c).process = p

\* C30: once initializeServers has finished and the configured provider is
\* registered, a call the dispatcher routes to a provider name (a mapped tool
\* name with arguments that parse) does not fail with the provider-not-found
\* error for that name.
C30_RoutedProviderExists ==
  [][\A b \in Batches :
       ( /\ batches[b].st = "idle" /\ batches'[b].st # "idle"
         /\ init.pc = "done"
         /\ TodoistConfig.name \in servers )
       => \A i \in 1..Len(batches'[b].p) :
            LET name == batches'[b].in[i].name
            IN  (name \in RoutedNames /\ JsonParses(batches'[b].in[i].arguments)) =>
                  batches'[b].p[i].val # NotFoundMessage(DetermineMCPServer(name))]_vars

====
